---- MODULE Spec2Model ----
(***************************************************************************)
(* ClipEditor.py: the batch driver edit_video, the clip extractor          *)
(* VideoEditor (one open source video) and the row reader                  *)
(* VideoClipCSVReader.                                                     *)
(*                                                                         *)
(* Text is modelled as a sequence of one-character strings, so that the    *)
(* string operations of the program (split, replace, strip, basename,      *)
(* splitext, join, int(), the 02d format) are computed as the program      *)
(* computes them.  Python's None is the empty sequence <<>> of an option   *)
(* value, and a present value x is <<x>>.                                  *)
(***************************************************************************)
EXTENDS Integers, Sequences, FiniteSets, TLC

VARIABLES
    rows,         \* the rows of the clip file, in file order (csv.DictReader)
    unreadable,   \* source paths mpy.VideoFileClip cannot open
    disk,         \* paths of the files that exist in the output area
    run,          \* "first" or "second" execution of main()
    pc,           \* position of edit_video
    idx,          \* number of rows the generator has yielded in this run
    prev_source,  \* edit_video's prev_source (an option)
    editor,       \* edit_video's editor: 0 is None, else an index of videos
    videos,       \* every VideoEditor constructed in this run
    calls,        \* create_clip calls of this run that reached the exists test
    err,          \* "none" or the kind of the exception that ended the run
    exit_code,    \* option: the exit status of the process once it has ended
    disk_at_start,\* disk when this run started
    first_exit,   \* option: exit status of the first run, once ended
    time_in,      \* conversion check: the argument of _convert_to_hms
    time_out      \* conversion check: option, the value it returned

vars == <<rows, unreadable, disk, run, pc, idx, prev_source, editor, videos,
          calls, err, exit_code, disk_at_start, first_exit, time_in, time_out>>

(***************************************************************************)
(* Bounds of the model.                                                    *)
(***************************************************************************)
MaxRows == 4
MaxMinutes == 125

None == <<>>
Some(x) == <<x>>

(***************************************************************************)
(* Text helpers.                                                           *)
(***************************************************************************)
DigitChars == <<"0", "1", "2", "3", "4", "5", "6", "7", "8", "9">>

IsDigit(c) == \E d \in 1..10 : DigitChars[d] = c

DigitValue(c) == (CHOOSE d \in 1..10 : DigitChars[d] = c) - 1

\* str.replace(old, new) for a one-character old and a text new
RECURSIVE Replace(_, _, _)
Replace(s, old, new) ==
    IF s = <<>> THEN <<>>
    ELSE (IF Head(s) = old THEN new ELSE <<Head(s)>>) \o Replace(Tail(s), old, new)

\* str.strip(): leading and trailing blanks removed
RECURSIVE LStrip(_)
LStrip(s) ==
    IF s # <<>> /\ Head(s) = " " THEN LStrip(Tail(s)) ELSE s

RECURSIVE RStrip(_)
RStrip(s) ==
    IF s # <<>> /\ s[Len(s)] = " " THEN RStrip(SubSeq(s, 1, Len(s) - 1)) ELSE s

Strip(s) == LStrip(RStrip(s))

\* str.rfind(c), 1-based; 0 when c does not occur
LastIndexOf(s, c) ==
    LET hits == {i \in 1..Len(s) : s[i] = c}
    IN IF hits = {} THEN 0 ELSE CHOOSE i \in hits : \A j \in hits : j <= i

\* str.split(sep): the pieces between the separators, in order
RECURSIVE Split(_, _)
Split(s, sep) ==
    LET hits == {i \in 1..Len(s) : s[i] = sep}
    IN IF hits = {} THEN <<s>>
       ELSE LET first == CHOOSE i \in hits : \A j \in hits : i <= j
            IN <<SubSeq(s, 1, first - 1)>> \o Split(SubSeq(s, first + 1, Len(s)), sep)

\* int(text): defined for a non-empty run of digits, blanks around it allowed
IsInt(s) == Strip(s) # <<>> /\ \A i \in 1..Len(Strip(s)) : IsDigit(Strip(s)[i])

RECURSIVE IntOfDigits(_)
IntOfDigits(s) ==
    IF s = <<>> THEN 0
    ELSE 10 * IntOfDigits(SubSeq(s, 1, Len(s) - 1)) + DigitValue(s[Len(s)])

IntOf(s) == IntOfDigits(Strip(s))

\* the decimal digits of a natural number
RECURSIVE Decimal(_)
Decimal(n) ==
    IF n < 10 THEN <<DigitChars[n + 1]>>
    ELSE Decimal(n \div 10) \o <<DigitChars[(n % 10) + 1]>>

\* the format specification 02d: at least two digits, zero-padded
Format02d(n) == IF n < 10 THEN <<"0">> \o Decimal(n) ELSE Decimal(n)

(***************************************************************************)
(* VideoEditor._convert_to_hms                                             *)
(***************************************************************************)
\* the unpacking "minutes, seconds = map(int, ...)" succeeds
CanConvert(time_str) ==
    LET parts == Split(time_str, ":")
    IN Len(parts) = 2 /\ IsInt(parts[1]) /\ IsInt(parts[2])

HoursOfDiv100(minutes) == minutes \div 100

HoursOf(minutes) == minutes \div 60

_convert_to_hms(time_str) ==
    LET parts   == Split(time_str, ":")
        minutes == IntOf(parts[1])
        seconds == IntOf(parts[2])
        hours   == HoursOf(minutes)
    IN Format02d(hours) \o <<":">> \o Format02d(minutes % 60) \o <<":">>
         \o Format02d(seconds)

(***************************************************************************)
(* os.path helpers (posixpath) used by _generate_clip_name.                *)
(***************************************************************************)
\* os.path.splitext(p)[0]: the extension starts at the last dot of the last
\* component, unless only dots precede it there
SplitextRoot(p) ==
    LET sepIndex == LastIndexOf(p, "/")
        dotIndex == LastIndexOf(p, ".")
    IN IF dotIndex > sepIndex
          /\ \E k \in (sepIndex + 1)..(dotIndex - 1) : p[k] # "."
       THEN SubSeq(p, 1, dotIndex - 1)
       ELSE p

\* os.path.basename(p)
Basename(p) == SubSeq(p, LastIndexOf(p, "/") + 1, Len(p))

\* os.path.join(a, b)
PathJoin(a, b) ==
    IF b # <<>> /\ Head(b) = "/" THEN b
    ELSE IF a = <<>> \/ a[Len(a)] = "/" THEN a \o b
    ELSE a \o <<"/">> \o b

(***************************************************************************)
(* VideoClipCSVReader._generate_clip_name                                  *)
(***************************************************************************)
_generate_clip_name(row) ==
    LET base_file == Replace(Replace(Basename(SplitextRoot(row.File)),
                                     "(", <<>>), ")", <<>>)
        path == Replace(base_file \o <<"-">> \o row.Name, " ", <<"_">>)
        name == Replace(base_file \o <<"-">> \o row.Name \o <<"-">> \o row.Play,
                        " ", <<"_">>)
    IN PathJoin(path, name)

(***************************************************************************)
(* VideoEditor.create_clip: the name of the output file, and the test that *)
(* skips a clip whose file exists.                                         *)
(***************************************************************************)
ClipName(start_time, end_time, output_file) ==
    LET clip_start == _convert_to_hms(start_time)
        clip_end   == _convert_to_hms(end_time)
    IN output_file \o <<"_">> \o Replace(clip_start, ":", <<>>) \o <<"-">>
         \o Replace(clip_end, ":", <<>>) \o <<".", "m", "p", "4">>

NeverExists(files, clip_name) == FALSE

PathExists(files, clip_name) == clip_name \in files

(***************************************************************************)
(* The inputs: rows of the clip file.  From is an option: None is a row    *)
(* that has no From value.                                                 *)
(***************************************************************************)
SourceA == <<"a", "/", "g", ".", "m">>
SourceB == <<"b", "/", "g", ".", "m">>
SourceC == <<"(", "h", ")", ".", "m">>
NoSource == <<>>

RowOf(file, from) ==
    [File |-> file, Name |-> <<"I", " ", "n">>, Play |-> <<"G">>,
     From |-> from, To |-> <<"2", ":", "1", "0">>]

GoodFrom == Some(<<" ", "1", ":", "0", "5">>)

\* the rows a clip file is made of here, by a short key: four rows that
\* differ in File only, a row without a From value, and a row whose From is
\* not mm:ss
RowKeys == {"A", "B", "C", "blank", "noFrom", "badFrom"}

RowData ==
    [k \in RowKeys |->
        CASE k = "A"       -> RowOf(SourceA, GoodFrom)
          [] k = "B"       -> RowOf(SourceB, GoodFrom)
          [] k = "C"       -> RowOf(SourceC, GoodFrom)
          [] k = "blank"   -> RowOf(NoSource, GoodFrom)
          [] k = "noFrom"  -> RowOf(SourceA, None)
          [] k = "badFrom" -> RowOf(SourceB, Some(<<"1", "0", "5">>))]

RECURSIVE SeqsUpTo(_, _)
SeqsUpTo(S, n) ==
    IF n = 0 THEN {<<>>}
    ELSE LET shorter == SeqsUpTo(S, n - 1)
         IN shorter \cup {Append(q, x) : q \in {t \in shorter : Len(t) = n - 1}, x \in S}

File(i) == RowData[rows[i]].File

SourcesOf(rs) == {RowData[rs[i]].File : i \in 1..Len(rs)} \ {NoSource}

(***************************************************************************)
(* edit_video                                                              *)
(***************************************************************************)
\* the row the generator yielded last; row['Clip Name'] is set by clip_list
ClipNames == [k \in RowKeys |-> _generate_clip_name(RowData[k])]

Row == RowData[rows[idx]]

\* the fields edit_video reads from the row (lines 163-166)
Source == Row.File
OutputName == Strip(ClipNames[rows[idx]])
StartTime == Strip(Row.From[1])
EndTime == Strip(Row.To)

\* "if editor:" - an object is true, None is false
TruthyNever(e) == FALSE

Truthy(e) == e # 0

\* "if clip['File'] and prev_source != source:"
NeedsRebindNoEmptyTest(file, prev) == prev # Some(file)

NeedsRebindFirstOnly(file, prev) == file # <<>> /\ prev = None

NeedsRebind(file, prev) == file # <<>> /\ prev # Some(file)

\* VideoEditor.close_source on the video the editor holds
NotClosed(vs, e) == vs

Closed(vs, e) == [vs EXCEPT ![e].closes = @ + 1]

OpenVideos == {v \in DOMAIN videos : videos[v].closes = 0}

\* an exception raised in the loop: nothing in edit_video or main catches
\* it, so the interpreter ends the process with status 1
FailAndGoOn(kind) ==
    /\ err' = kind
    /\ pc' = "next"
    /\ UNCHANGED exit_code

Fail(kind) ==
    /\ err' = kind
    /\ pc' = "error"
    /\ exit_code' = Some(1)

Init ==
    /\ rows \in SeqsUpTo(RowKeys, MaxRows)
    /\ unreadable \in SUBSET SourcesOf(rows)
    /\ disk = {}
    /\ run = "first"
    /\ pc = "next"
    /\ idx = 0
    /\ prev_source = None
    /\ editor = 0
    /\ videos = <<>>
    /\ calls = <<>>
    /\ err = "none"
    /\ exit_code = None
    /\ disk_at_start = {}
    /\ first_exit = None
    /\ time_in = <<>>
    /\ time_out = None

\* the generator is exhausted: the for loop ends
Exhausted ==
    /\ pc = "next"
    /\ idx = Len(rows)
    /\ pc' = "final"
    /\ UNCHANGED <<rows, unreadable, disk, run, idx, prev_source, editor, videos,
                   calls, err, exit_code, disk_at_start, first_exit, time_in, time_out>>

\* the generator yields a row and edit_video reads its fields
NextRow ==
    /\ pc = "next"
    /\ idx < Len(rows)
    /\ RowData[rows[idx + 1]].From # None
    /\ idx' = idx + 1
    /\ pc' = "bind"
    /\ UNCHANGED <<rows, unreadable, disk, run, prev_source, editor, videos,
                   calls, err, exit_code, disk_at_start, first_exit, time_in, time_out>>

\* the row has no From value: clip['From'].strip() raises
RowWithoutFrom ==
    /\ pc = "next"
    /\ idx < Len(rows)
    /\ RowData[rows[idx + 1]].From = None
    /\ idx' = idx + 1
    /\ Fail("InputFormatError")
    /\ UNCHANGED <<rows, unreadable, disk, run, prev_source, editor, videos,
                   calls, disk_at_start, first_exit, time_in, time_out>>

\* lines 168-171
Bind ==
    /\ pc = "bind"
    /\ IF NeedsRebind(Source, prev_source)
       THEN /\ prev_source' = Some(Source)
            /\ pc' = IF Truthy(editor) THEN "close_old" ELSE "open_new"
       ELSE /\ pc' = "create"
            /\ UNCHANGED prev_source
    /\ UNCHANGED <<rows, unreadable, disk, run, idx, editor, videos,
                   calls, err, exit_code, disk_at_start, first_exit, time_in, time_out>>

\* line 172
CloseOld ==
    /\ pc = "close_old"
    /\ videos' = Closed(videos, editor)
    /\ pc' = "open_new"
    /\ UNCHANGED <<rows, unreadable, disk, run, idx, prev_source, editor,
                   calls, err, exit_code, disk_at_start, first_exit, time_in, time_out>>

\* line 173, VideoEditor.__init__ succeeds
OpenNewKeepsOldEditor ==
    /\ pc = "open_new"
    /\ Source \notin unreadable
    /\ videos' = Append(videos, [source |-> Source, closes |-> 0, row |-> idx])
    /\ editor' = IF editor = 0 THEN Len(videos) + 1 ELSE editor
    /\ pc' = "create"
    /\ UNCHANGED <<rows, unreadable, disk, run, idx, prev_source,
                   calls, err, exit_code, disk_at_start, first_exit, time_in, time_out>>

OpenNew ==
    /\ pc = "open_new"
    /\ Source \notin unreadable
    /\ videos' = Append(videos, [source |-> Source, closes |-> 0, row |-> idx])
    /\ editor' = Len(videos) + 1
    /\ pc' = "create"
    /\ UNCHANGED <<rows, unreadable, disk, run, idx, prev_source,
                   calls, err, exit_code, disk_at_start, first_exit, time_in, time_out>>

\* line 173, mpy.VideoFileClip raises
OpenFails ==
    /\ pc = "open_new"
    /\ Source \in unreadable
    /\ Fail("SourceOpenError")
    /\ UNCHANGED <<rows, unreadable, disk, run, idx, prev_source, editor, videos,
                   calls, disk_at_start, first_exit, time_in, time_out>>

\* line 174 with editor None: None has no create_clip
NoEditor ==
    /\ pc = "create"
    /\ editor = 0
    /\ Fail("UsageError")
    /\ UNCHANGED <<rows, unreadable, disk, run, idx, prev_source, editor, videos,
                   calls, disk_at_start, first_exit, time_in, time_out>>

\* create_clip, lines 94-95: a time that is not mm:ss makes int() or the
\* unpacking raise
BadTime ==
    /\ pc = "create"
    /\ editor # 0
    /\ ~(CanConvert(StartTime) /\ CanConvert(EndTime))
    /\ Fail("InputFormatError")
    /\ UNCHANGED <<rows, unreadable, disk, run, idx, prev_source, editor, videos,
                   calls, disk_at_start, first_exit, time_in, time_out>>

CallRecord(engine) ==
    [row    |-> idx,
     video  |-> editor,
     source |-> videos[editor].source,
     bound  |-> videos[editor].closes = 0,
     engine |-> engine]

\* create_clip, lines 94-99: the file exists, the clip is skipped
SkipExisting ==
    /\ pc = "create"
    /\ editor # 0
    /\ CanConvert(StartTime) /\ CanConvert(EndTime)
    /\ PathExists(disk, ClipName(StartTime, EndTime, OutputName))
    /\ calls' = Append(calls, CallRecord("skipped"))
    /\ pc' = "next"
    /\ UNCHANGED <<rows, unreadable, disk, run, idx, prev_source, editor, videos,
                   err, exit_code, disk_at_start, first_exit, time_in, time_out>>

\* create_clip, lines 100-108: the engine cuts and writes the clip
EncodeClip ==
    /\ pc = "create"
    /\ editor # 0
    /\ CanConvert(StartTime) /\ CanConvert(EndTime)
    /\ ~PathExists(disk, ClipName(StartTime, EndTime, OutputName))
    /\ calls' = Append(calls, CallRecord("written"))
    /\ disk' = disk \cup {ClipName(StartTime, EndTime, OutputName)}
    /\ pc' = "next"
    /\ UNCHANGED <<rows, unreadable, run, idx, prev_source, editor, videos,
                   err, exit_code, disk_at_start, first_exit, time_in, time_out>>

\* create_clip, lines 100-108: write_videofile raises; the engine may or may
\* not leave a partly written file behind
EncodeFails ==
    /\ pc = "create"
    /\ editor # 0
    /\ CanConvert(StartTime) /\ CanConvert(EndTime)
    /\ ~PathExists(disk, ClipName(StartTime, EndTime, OutputName))
    /\ calls' = Append(calls, CallRecord("failed"))
    /\ \E partial \in BOOLEAN :
         disk' = IF partial
                 THEN disk \cup {ClipName(StartTime, EndTime, OutputName)}
                 ELSE disk
    /\ Fail("EncodeError")
    /\ UNCHANGED <<rows, unreadable, run, idx, prev_source, editor, videos,
                   disk_at_start, first_exit, time_in, time_out>>

\* lines 175-176
FinalClose ==
    /\ pc = "final"
    /\ videos' = IF Truthy(editor) THEN Closed(videos, editor) ELSE videos
    /\ pc' = "return"
    /\ UNCHANGED <<rows, unreadable, disk, run, idx, prev_source, editor,
                   calls, err, exit_code, disk_at_start, first_exit, time_in, time_out>>

\* main returns 0 and the process exits with it
Exit ==
    /\ pc = "return"
    /\ exit_code' = Some(0)
    /\ pc' = "done"
    /\ UNCHANGED <<rows, unreadable, disk, run, idx, prev_source, editor, videos,
                   calls, err, disk_at_start, first_exit, time_in, time_out>>

\* the program is started again on the same clip file, settings and sources,
\* with the output area as the first run left it
Rerun ==
    /\ run = "first"
    /\ pc \in {"done", "error"}
    /\ run' = "second"
    /\ first_exit' = exit_code
    /\ disk_at_start' = disk
    /\ pc' = "next"
    /\ idx' = 0
    /\ prev_source' = None
    /\ editor' = 0
    /\ videos' = <<>>
    /\ calls' = <<>>
    /\ err' = "none"
    /\ exit_code' = None
    /\ UNCHANGED <<rows, unreadable, disk, time_in, time_out>>

Next ==
    \/ Exhausted
    \/ NextRow
    \/ RowWithoutFrom
    \/ Bind
    \/ CloseOld
    \/ OpenNew
    \/ OpenFails
    \/ NoEditor
    \/ BadTime
    \/ SkipExisting
    \/ EncodeClip
    \/ EncodeFails
    \/ FinalClose
    \/ Exit
    \/ Rerun

Spec == Init /\ [][Next]_vars

(***************************************************************************)
(* _convert_to_hms on its own: the argument is drawn from the mm:ss texts  *)
(* of the minutes 0..MaxMinutes and the seconds 0..59, written with or     *)
(* without a leading zero, and the function is applied once.               *)
(***************************************************************************)
TimeTexts(m, s) ==
    {mt \o <<":">> \o st : mt \in {Decimal(m), Format02d(m)},
                           st \in {Decimal(s), Format02d(s)}}

InitConv ==
    /\ \E m \in 0..MaxMinutes, s \in 0..59 :
         \E t \in TimeTexts(m, s) :
           time_in = [minutes |-> m, seconds |-> s, text |-> t]
    /\ time_out = None
    /\ pc = "convert"
    /\ rows = <<>>
    /\ unreadable = {}
    /\ disk = {}
    /\ run = "first"
    /\ idx = 0
    /\ prev_source = None
    /\ editor = 0
    /\ videos = <<>>
    /\ calls = <<>>
    /\ err = "none"
    /\ exit_code = None
    /\ disk_at_start = {}
    /\ first_exit = None

Convert ==
    /\ pc = "convert"
    /\ time_out = None
    /\ CanConvert(time_in.text)
    /\ time_out' = Some(_convert_to_hms(time_in.text))
    /\ UNCHANGED <<rows, unreadable, disk, run, pc, idx, prev_source, editor, videos,
                   calls, err, exit_code, disk_at_start, first_exit, time_in>>

NextConv == Convert

SpecConv == InitConv /\ [][NextConv]_vars

(***************************************************************************)
(* Definitions used to state the properties.                               *)
(***************************************************************************)
\* the source a row stands for: the File of the last row up to i that names one
RECURSIVE LastNamedSource(_)
LastNamedSource(i) ==
    IF i = 0 THEN None
    ELSE IF File(i) # NoSource THEN Some(File(i))
    ELSE LastNamedSource(i - 1)

\* row i names a source other than the one in use before it
NamesNewSource(i) == File(i) # NoSource /\ LastNamedSource(i - 1) # Some(File(i))

\* row i of this run is past lines 168-173
PastBind(i) ==
    \/ i < idx
    \/ /\ i = idx
       /\ \/ pc \in {"create", "next", "final", "return", "done"}
          \/ /\ pc = "error"
             /\ err # "SourceOpenError"
             /\ RowData[rows[i]].From # None

CallSet == {calls[c] : c \in DOMAIN calls}

\* two digits of a number below 100
TwoDigits(n) == <<DigitChars[(n \div 10) + 1], DigitChars[(n % 10) + 1]>>

(***************************************************************************)
(* C1: at any time at most one VideoEditor of the run is open, and the     *)
(* open one is never replaced in one step: between two different open      *)
(* videos there is a state with none open (close_source comes before the   *)
(* next VideoEditor is constructed).                                       *)
(***************************************************************************)
C1_OneBoundViaRelease ==
    /\ [](Cardinality(OpenVideos) <= 1)
    /\ [][(OpenVideos # {} /\ OpenVideos' # {}) => OpenVideos' = OpenVideos]_vars

C1_Witness ==
    \E v \in DOMAIN videos :
        /\ v > 1
        /\ videos[v].closes = 0
        /\ videos[v - 1].closes = 1
        /\ videos[v - 1].source # videos[v].source

(***************************************************************************)
(* C2: a VideoEditor is opened exactly at the rows that name a source      *)
(* other than the one in use, in row order, each on the row's own File;    *)
(* for the rows A, A, blank, B a completed run has opened A then B.        *)
(***************************************************************************)
C2_OpensExactlyAtNewSources ==
    /\ \A i \in 1..idx :
          PastBind(i) => ((\E v \in DOMAIN videos : videos[v].row = i) <=> NamesNewSource(i))
    /\ \A v \in DOMAIN videos :
          /\ videos[v].row \in 1..idx
          /\ NamesNewSource(videos[v].row)
          /\ videos[v].source = File(videos[v].row)
          /\ \A w \in DOMAIN videos : v < w => videos[v].row < videos[w].row
    /\ (rows = <<"A", "A", "blank", "B">> /\ pc = "done")
          => /\ Len(videos) = 2
             /\ videos[1].source = SourceA /\ videos[1].row = 1
             /\ videos[2].source = SourceB /\ videos[2].row = 4

C2_Witness ==
    /\ rows = <<"A", "A", "blank", "B">>
    /\ pc = "done"
    /\ Len(videos) = 2
    /\ Len(calls) = 4

(***************************************************************************)
(* C3: a second run after a first run that completed (exit status 0), on   *)
(* the same rows, settings and sources and with the first run's files in   *)
(* place, makes no engine call (every create_clip finds its file and is    *)
(* skipped), leaves the set of files as it was, raises nothing (every      *)
(* source opens again), and exits with status 0.                           *)
(***************************************************************************)
C3_SecondRunSkipsAll ==
    (run = "second" /\ first_exit = Some(0)) =>
        /\ \A c \in CallSet : c.engine = "skipped"
        /\ disk = disk_at_start
        /\ err = "none"
        /\ pc # "error"
        /\ pc = "open_new" => Source \notin unreadable
        /\ pc = "create" =>
              /\ editor # 0
              /\ CanConvert(StartTime) /\ CanConvert(EndTime)
              /\ PathExists(disk, ClipName(StartTime, EndTime, OutputName))
        /\ pc = "done" => exit_code = Some(0)

C3_Witness ==
    /\ run = "second"
    /\ first_exit = Some(0)
    /\ pc = "done"
    /\ exit_code = Some(0)
    /\ Len(calls) >= 3
    /\ Cardinality(disk) >= 2

(***************************************************************************)
(* C4: when a first run, started on an empty output area, completes, there *)
(* are as many output files as rows.  Stated for clip files in which no    *)
(* two rows are equal.                                                     *)
(***************************************************************************)
C4_OneFilePerRequest ==
    (/\ run = "first"
     /\ pc = "done"
     /\ \A i, j \in 1..Len(rows) : i # j => RowData[rows[i]] # RowData[rows[j]])
        => Cardinality(disk) = Len(rows)

(***************************************************************************)
(* C5: a row with a From value and an empty File, reached when no earlier  *)
(* row has named a source, ends the run at that row with a usage error:    *)
(* exit status 1, no create_clip call reached the engine or the exists     *)
(* test, no file was created, and the row stays the last one read.         *)
(***************************************************************************)
C5_EmptySourceUnboundIsFatal ==
    \A i \in 1..idx :
        (/\ File(i) = NoSource
         /\ RowData[rows[i]].From # None
         /\ LastNamedSource(i - 1) = None
         /\ (i < idx \/ pc \notin {"bind", "create"}))
            => /\ idx = i
               /\ pc = "error"
               /\ err = "UsageError"
               /\ exit_code = Some(1)
               /\ calls = <<>>
               /\ videos = <<>>
               /\ disk = disk_at_start

C5_Witness ==
    /\ idx = 1
    /\ Len(rows) > 1
    /\ rows[1] = "blank"
    /\ editor = 0
    /\ err = "UsageError"
    /\ pc = "error"

(***************************************************************************)
(* C6: once a row fails to parse, a source fails to open or the engine     *)
(* fails to write, the run has ended with exit status 1 at that row: no    *)
(* create_clip call belongs to a later row, none to the failing row itself *)
(* when the failure came before create_clip (a missing From, a source that *)
(* does not open), nothing more is read or called, and no file that exists *)
(* is ever removed.                                                        *)
(***************************************************************************)
C6_ErrorsAbortTheBatch ==
    /\ [](err # "none" =>
            /\ pc = "error"
            /\ exit_code = Some(1)
            /\ \A c \in CallSet : c.row <= idx
            /\ (err = "SourceOpenError" \/ RowData[rows[idx]].From = None)
                  => \A c \in CallSet : c.row < idx
            /\ \A c \in CallSet : c.engine = "failed" => (c.row = idx /\ err = "EncodeError"))
    /\ [][/\ (run' = run => disk \subseteq disk')
          /\ (pc = "error" /\ run' = run) => UNCHANGED <<idx, calls, disk, videos>>]_vars

C6_Witness ==
    /\ err = "EncodeError"
    /\ pc = "error"
    /\ idx = 2
    /\ Len(rows) > 2
    /\ \E c \in CallSet : c.engine = "written" /\ c.row = 1

(***************************************************************************)
(* C7: for minutes m >= 0 and seconds 0 <= s < 60 written as mm:ss,        *)
(* _convert_to_hms is defined and returns m div 60, m mod 60 and s, each   *)
(* as two digits, joined by colons; the number of seconds is kept;         *)
(* 75:30 gives 01:15:30 and 05:09 gives 00:05:09.                          *)
(***************************************************************************)
C7_ConvertToHms ==
    /\ pc = "convert" => CanConvert(time_in.text)
    /\ (pc = "convert" /\ time_out # None) =>
          LET m   == time_in.minutes
              s   == time_in.seconds
              out == time_out[1]
              h   == IntOfDigits(SubSeq(out, 1, 2))
              mn  == IntOfDigits(SubSeq(out, 4, 5))
              sc  == IntOfDigits(SubSeq(out, 7, 8))
          IN /\ out = TwoDigits(m \div 60) \o <<":">> \o TwoDigits(m % 60)
                        \o <<":">> \o TwoDigits(s)
             /\ Len(out) = 8
             /\ 3600 * h + 60 * mn + sc = 60 * m + s
             /\ mn < 60 /\ sc = s
             /\ time_in.text = <<"7", "5", ":", "3", "0">>
                   => out = <<"0", "1", ":", "1", "5", ":", "3", "0">>
             /\ time_in.text = <<"0", "5", ":", "0", "9">>
                   => out = <<"0", "0", ":", "0", "5", ":", "0", "9">>

C7_Witness ==
    /\ time_in.text = <<"7", "5", ":", "3", "0">>
    /\ time_out = Some(<<"0", "1", ":", "1", "5", ":", "3", "0">>)

(***************************************************************************)
(* C8: when the rows are exhausted without an error the last video is      *)
(* closed before the process exits: with exit status 0 set, no video is    *)
(* open, every video of the run was closed exactly once, no error was      *)
(* raised; a run over no rows opens and closes nothing.                    *)
(***************************************************************************)
C8_CompletedRunReleasesAll ==
    /\ pc \in {"return", "done"} =>
          /\ OpenVideos = {}
          /\ \A v \in DOMAIN videos : videos[v].closes = 1
          /\ err = "none"
          /\ idx = Len(rows)
    /\ pc = "done" <=> exit_code = Some(0)
    /\ rows = <<>> => videos = <<>>

C8_Witness ==
    /\ pc = "done"
    /\ run = "second"
    /\ exit_code = Some(0)
    /\ Len(videos) >= 2
    /\ Len(calls) >= 3
    /\ \A c \in CallSet : c.engine = "skipped"

(***************************************************************************)
(* C9: every create_clip call is made on a video that is open at the time  *)
(* of the call, and that video's source is the source the row stands for:  *)
(* its own File, or the File of the last earlier row that names one.       *)
(***************************************************************************)
C9_CallsGoToTheEffectiveSource ==
    /\ \A c \in CallSet :
          /\ c.bound
          /\ Some(c.source) = LastNamedSource(c.row)
    /\ (pc = "create" /\ editor # 0) =>
          /\ videos[editor].closes = 0
          /\ Some(videos[editor].source) = LastNamedSource(idx)

C9_Witness ==
    /\ rows = <<"A", "B", "A", "blank">>
    /\ Len(calls) = 4
    /\ calls[1].source = SourceA
    /\ calls[2].source = SourceB
    /\ calls[3].source = SourceA
    /\ calls[4].source = SourceA /\ calls[4].row = 4

(***************************************************************************)
(* C10: whenever edit_video has stopped, by completing or by an error, no  *)
(* video that was opened is left without close_source.                     *)
(***************************************************************************)
C10_NoVideoLeftOpenOnStop ==
    pc \in {"done", "error"} => OpenVideos = {}

====
